---- MODULE Spec2Model ----
(***************************************************************************)
(* A model of src/rsa_image.py: the number-theoretic core (the             *)
(* Miller-Rabin test is_prime, generate_prime, gcd, mod_inverse,           *)
(* generate_keypair, and the per-unit codec encrypt_text / decrypt_text /  *)
(* encrypt_bytes / decrypt_bytes) and the key and text pages of the        *)
(* Streamlit shell that calls it.                                          *)
(*                                                                         *)
(* Python integers are unbounded; every product that may exceed the        *)
(* 32-bit integer range of TLC is taken through MulMod, which computes the *)
(* same residue digit by digit.                                            *)
(***************************************************************************)
EXTENDS Integers, Sequences, FiniteSets, TLC

VARIABLES
    pc,          \* position of the running call
    caller,      \* who called is_prime: "test" (a direct call) or "generate_prime"
    ip_n, ip_k,  \* is_prime: arguments n and k
    ip_s, ip_d,  \* is_prime: n - 1 = 2^s * d
    ip_i,        \* is_prime: rounds completed so far (the for-loop index)
    ip_a,        \* is_prime: base drawn for the round in progress (0: none)
    ip_ret,      \* is_prime: return value, "None" while running
    bits,        \* generate_keypair: argument
    stage,       \* generate_keypair: which prime generate_prime is producing
    cand,        \* generate_prime: the candidate p under test
    p, q, n, phi, e, d,   \* generate_keypair: locals
    keypair,     \* generate_keypair: return value, <<>> while running
    public_key, private_key,  \* codec: the keys passed in
    kind,        \* codec: "text" or "bytes"
    plaintext,   \* codec: input of the encrypt call
    ciphertext,  \* codec: list of integers (encrypt result / decrypt input)
    decrypted,   \* codec: result of the decrypt call
    st_error,    \* st.error messages shown, in order
    raised,      \* exception that left the call, "None" if none
    session_state,  \* shell: st.session_state, a record of its entries
    st_success   \* shell: st.success messages shown by the last rerun, in order

vars == <<pc, caller, ip_n, ip_k, ip_s, ip_d, ip_i, ip_a, ip_ret,
          bits, stage, cand, p, q, n, phi, e, d, keypair,
          public_key, private_key, kind, plaintext, ciphertext, decrypted,
          st_error, raised, session_state, st_success>>

ipVars == <<ip_n, ip_k, ip_s, ip_d, ip_i, ip_a, ip_ret>>
kgVars == <<bits, stage, cand, p, q, n, phi, e, d, keypair>>
cdVars == <<public_key, private_key, kind, plaintext, ciphertext, decrypted,
            st_error, raised>>
shVars == <<session_state, st_success>>

---------------------------------------------------------------------------
(* Bounds of the model. *)

\* largest n handed to is_prime by a direct call
MaxN == 97
\* largest rounds count k handed to is_prime by a direct call
MaxK == 5
\* largest bit length handed to generate_keypair
MaxBits == 16
\* results of random.getrandbits explored: the MaxDraw + 1 lowest and the MaxDraw + 1 highest
MaxDraw == 15
\* largest bit length explored under the fair specification
MaxFairBits == 8
\* width of the two windows [2, 2+MaxE] and [phi-1-MaxE, phi-1] the draw of e is taken from
MaxE == 11
\* width of the two windows of plaintext units tried against a generated key
MaxUnit == 40
\* longest message handed to the codec
MaxLen == 2

\* is_prime's default number of rounds
DefaultRounds == 5
\* largest value of a byte
ByteMax == 255
\* number of code points: chr accepts 0 .. 0x10FFFF
ChrLimit == 1114112

---------------------------------------------------------------------------
(* Arithmetic on unbounded integers. *)

Min(x, y) == IF x <= y THEN x ELSE y
Max(x, y) == IF x >= y THEN x ELSE y

\* (x * y) % m for 0 <= x, y < m < 2^21, without forming x * y when it
\* would be large: y is taken in three base-128 digits
MulMod(x, y, m) ==
    IF m <= 46340 THEN (x * y) % m
    ELSE LET r2 == (x * (y \div 16384)) % m
             r1 == (r2 * 128 + x * ((y \div 128) % 128)) % m
         IN  (r1 * 128 + x * (y % 128)) % m

RECURSIVE pow(_, _, _)
\* Python's three-argument pow(base, exp, mod) for exp >= 0, mod >= 1, by
\* squaring: base^exp = (base^(exp \div 2))^2 * base^(exp % 2)
pow(base, exp, mod) ==
    IF exp = 0 THEN 1 % mod
    ELSE LET h == pow(base, exp \div 2, mod)
         IN  IF h = 0 THEN 0
             ELSE IF exp % 2 = 1
                  THEN MulMod(MulMod(h, h, mod), base % mod, mod)
                  ELSE MulMod(h, h, mod)

\* true primality, by trial division; the yardstick the claims are stated against
IsTruePrime(v) == v > 1 /\ \A t \in 2..(v - 1) : t * t > v \/ v % t # 0

---------------------------------------------------------------------------
(* is_prime(n, k): Miller-Rabin, lines 8-39. *)

RECURSIVE Decompose(_, _)
\* lines 21-25: the while loop writing n - 1 as 2^s * d; yields <<s, d>>
Decompose(sv, dv) ==
    IF dv % 2 = 0 THEN Decompose(sv + 1, dv \div 2) ELSE <<sv, dv>>

RECURSIVE InnerLoop(_, _, _)
\* lines 33-38: the for/else; TRUE when the loop left by break, FALSE when
\* it ran out (the else branch, which returns False)
InnerLoop(x, left, nv) ==
    IF left <= 0 THEN FALSE
    ELSE LET x2 == MulMod(x, x, nv)
         IN  IF x2 = nv - 1 THEN TRUE ELSE InnerLoop(x2, left - 1, nv)

\* the round without the x == n - 1 test of line 31
RoundPassesNoMinusOne(nv, sv, dv, av) ==
    LET x == pow(av, dv, nv)
    IN  x = 1 \/ InnerLoop(x, sv - 1, nv)

\* the round with the inner loop's outcome ignored
RoundPassesAlways(nv, sv, dv, av) == TRUE

\* lines 30-38: one round with base a; TRUE when the round does not return False
RoundPasses(nv, sv, dv, av) ==
    LET x == pow(av, dv, nv)
    IN  x = 1 \/ x = nv - 1 \/ InnerLoop(x, sv - 1, nv)

\* the early returns of lines 13-18: "True", "False", or "None" to go on
EarlyReturn(nv) ==
    IF nv <= 1 \/ nv = 4 THEN "False"
    ELSE IF nv <= 3 THEN "True"
    ELSE IF nv % 2 = 0 THEN "False"
    ELSE "None"

IsPrimeReturn(v) ==
    /\ pc' = "is_prime_ret"
    /\ ip_ret' = v
    /\ ip_a' = 0

\* lines 13-25
IsPrimeEntry ==
    /\ pc = "is_prime"
    /\ IF EarlyReturn(ip_n) # "None"
       THEN /\ IsPrimeReturn(EarlyReturn(ip_n))
            /\ UNCHANGED <<ip_s, ip_d, ip_i>>
       ELSE /\ pc' = "is_prime_loop"
            /\ ip_s' = Decompose(0, ip_n - 1)[1]
            /\ ip_d' = Decompose(0, ip_n - 1)[2]
            /\ ip_i' = 0
            /\ UNCHANGED <<ip_a, ip_ret>>
    /\ UNCHANGED <<caller, ip_n, ip_k, kgVars, cdVars, shVars>>

\* lines 28-29: a = random.randint(2, n - 2)
IsPrimeDraw ==
    /\ pc = "is_prime_loop"
    /\ ip_i < ip_k
    /\ \E av \in 2..(ip_n - 2) : ip_a' = av
    /\ pc' = "is_prime_round"
    /\ UNCHANGED <<caller, ip_n, ip_k, ip_s, ip_d, ip_i, ip_ret, kgVars, cdVars, shVars>>

\* lines 30-38: the rest of the round
IsPrimeRound ==
    /\ pc = "is_prime_round"
    /\ IF RoundPasses(ip_n, ip_s, ip_d, ip_a)
       THEN /\ pc' = "is_prime_loop"
            /\ ip_i' = ip_i + 1
            /\ ip_a' = 0
            /\ UNCHANGED ip_ret
       ELSE /\ IsPrimeReturn("False")
            /\ UNCHANGED ip_i
    /\ UNCHANGED <<caller, ip_n, ip_k, ip_s, ip_d, kgVars, cdVars, shVars>>

\* line 39, written as return False
IsPrimeExitFalse ==
    /\ pc = "is_prime_loop"
    /\ ip_i >= ip_k
    /\ IsPrimeReturn("False")
    /\ UNCHANGED <<caller, ip_n, ip_k, ip_s, ip_d, ip_i, kgVars, cdVars, shVars>>

\* line 39: all k rounds passed
IsPrimeExit ==
    /\ pc = "is_prime_loop"
    /\ ip_i >= ip_k
    /\ IsPrimeReturn("True")
    /\ UNCHANGED <<caller, ip_n, ip_k, ip_s, ip_d, ip_i, kgVars, cdVars, shVars>>

IpIdle ==
    /\ ip_n = 0 /\ ip_k = 0 /\ ip_s = 0 /\ ip_d = 0 /\ ip_i = 0 /\ ip_a = 0
    /\ ip_ret = "None"

KgIdle ==
    /\ bits = 0 /\ stage = "none" /\ cand = 0
    /\ p = 0 /\ q = 0 /\ n = 0 /\ phi = 0 /\ e = 0 /\ d = 0
    /\ keypair = <<>>

CdIdle ==
    /\ public_key = <<>> /\ private_key = <<>> /\ kind = "none"
    /\ plaintext = <<>> /\ ciphertext = <<>> /\ decrypted = <<>>
    /\ st_error = <<>> /\ raised = "None"

\* lines 192-201: the entries of st.session_state the text pages use, as the
\* first run of the script leaves them; None and "" and [] are all <<>>, and
\* last_key_bits, absent until page 1 has run, is 0.  The image entries of
\* lines 202-206 are read and written by page 4 alone.
InitialSessionState ==
    [public_key |-> <<>>, private_key |-> <<>>, encrypted_text_msg |-> <<>>,
     original_text_msg |-> <<>>, decrypted_text_msg |-> <<>>, last_key_bits |-> 0]

ShIdle ==
    /\ session_state = InitialSessionState
    /\ st_success = <<>>

\* a direct call is_prime(n, k)
InitPrime ==
    /\ pc = "is_prime"
    /\ caller = "test"
    /\ ip_n \in 0..MaxN
    /\ ip_k \in 1..MaxK
    /\ ip_s = 0 /\ ip_d = 0 /\ ip_i = 0 /\ ip_a = 0
    /\ ip_ret = "None"
    /\ KgIdle
    /\ CdIdle
    /\ ShIdle

NextPrime == IsPrimeEntry \/ IsPrimeDraw \/ IsPrimeRound \/ IsPrimeExit

SpecPrime == InitPrime /\ [][NextPrime]_vars

---------------------------------------------------------------------------
(* gcd and mod_inverse, lines 52-80. *)

RECURSIVE gcd(_, _)
\* lines 56-58: while b: a, b = b, a % b
gcd(av, bv) == IF bv # 0 THEN gcd(bv, av % bv) ELSE av

RECURSIVE ModInvLoop(_, _, _, _)
\* lines 70-77: the while a > 1 loop, on (a, m, x, y); yields the final x
ModInvLoop(av, mv, xv, yv) ==
    IF av > 1
    THEN ModInvLoop(mv, av % mv, yv, xv - (av \div mv) * yv)
    ELSE xv

\* mod_inverse without the normalisation of lines 78-79
mod_inverse_raw(av, mv) ==
    IF mv = 1 THEN 0 ELSE ModInvLoop(av, mv, 1, 0)

\* lines 60-80
mod_inverse(av, mv) ==
    IF mv = 1 THEN 0
    ELSE LET xv == ModInvLoop(av, mv, 1, 0)
         IN  IF xv < 0 THEN xv + mv ELSE xv

---------------------------------------------------------------------------
(* generate_prime and generate_keypair, lines 41-50 and 82-113. *)

\* line 48: p |= (1 << bits - 1) | 1, on an r below 2^b
SetBits(r, b) ==
    LET top     == 2 ^ (b - 1)
        withTop == IF (r \div top) % 2 = 1 THEN r ELSE r + top
    IN  IF withTop % 2 = 1 THEN withTop ELSE withTop + 1

\* the bit lengths tried: the even ones, as the key-size slider gives them
BitLengths == {b \in 2..MaxBits : b % 2 = 0}

\* the values of random.getrandbits(b) the model draws: both ends of the range
DrawSample(b) == (0..Min(2 ^ b - 1, MaxDraw)) \cup (Max(0, 2 ^ b - 1 - MaxDraw)..(2 ^ b - 1))

\* the values of random.randint(2, phi - 1) the model draws: both ends of the range
ESample(ph) == (2..Min(ph - 1, 2 + MaxE)) \cup (Max(2, ph - 1 - MaxE)..(ph - 1))

\* lines 87-88: generate_keypair starts and calls generate_prime for p
GenerateKeypairCall ==
    /\ pc = "generate_keypair"
    /\ stage' = "p"
    /\ pc' = "generate_prime"
    /\ UNCHANGED <<caller, ipVars, bits, cand, p, q, n, phi, e, d, keypair, cdVars, shVars>>

\* lines 46-49: draw getrandbits(bits) = r, set the top and low bits, call is_prime(p)
GeneratePrimeDraw(r) ==
    /\ pc = "generate_prime"
    /\ r \in DrawSample(bits \div 2)
    /\ cand' = SetBits(r, bits \div 2)
    /\ ip_n' = cand'
    /\ ip_k' = DefaultRounds
    /\ ip_s' = 0 /\ ip_d' = 0 /\ ip_i' = 0 /\ ip_a' = 0
    /\ ip_ret' = "None"
    /\ pc' = "is_prime"
    /\ UNCHANGED <<caller, bits, stage, p, q, n, phi, e, d, keypair, cdVars, shVars>>

\* lines 49-50 and the assignments of lines 88, 89, 92: is_prime has returned
GeneratePrimeCheck ==
    /\ pc = "is_prime_ret"
    /\ caller = "generate_prime"
    /\ IF ip_ret = "True"
       THEN IF stage = "p"
            THEN /\ p' = cand
                 /\ stage' = "q"
                 /\ pc' = "generate_prime"
                 /\ q' = q
            ELSE /\ q' = cand
                 /\ pc' = "while_p_eq_q"
                 /\ UNCHANGED <<p, stage>>
       ELSE /\ pc' = "generate_prime"
            /\ UNCHANGED <<p, q, stage>>
    /\ UNCHANGED <<caller, ipVars, bits, cand, n, phi, e, d, keypair, cdVars, shVars>>

\* lines 94-95 reached without the loop of lines 91-92
DistinctCheckNoRetry ==
    /\ pc = "while_p_eq_q"
    /\ n' = p * q
    /\ phi' = (p - 1) * (q - 1)
    /\ pc' = "choose_e"
    /\ UNCHANGED <<caller, ipVars, bits, stage, cand, p, q, e, d, keypair, cdVars, shVars>>

\* lines 91-95: while p == q regenerate q; then n and phi
DistinctCheck ==
    /\ pc = "while_p_eq_q"
    /\ IF p = q
       THEN /\ pc' = "generate_prime"
            /\ UNCHANGED <<n, phi>>
       ELSE /\ n' = p * q
            /\ phi' = (p - 1) * (q - 1)
            /\ pc' = "choose_e"
    /\ UNCHANGED <<caller, ipVars, bits, stage, cand, p, q, e, d, keypair, cdVars, shVars>>

\* lines 103 and 105: e = random.randint(2, phi - 1)
ChooseE(ev) ==
    /\ pc = "choose_e"
    /\ ev \in ESample(phi)
    /\ e' = ev
    /\ pc' = "while_gcd"
    /\ UNCHANGED <<caller, ipVars, bits, stage, cand, p, q, n, phi, d, keypair, cdVars, shVars>>

\* lines 104-113: the test of the while loop; on exit d and the return value
CheckE ==
    /\ pc = "while_gcd"
    /\ IF gcd(e, phi) # 1
       THEN /\ pc' = "choose_e"
            /\ UNCHANGED <<d, keypair>>
       ELSE /\ d' = mod_inverse(e, phi)
            /\ keypair' = << <<n, e>>, <<n, d'>> >>
            /\ pc' = "done"
    /\ UNCHANGED <<caller, ipVars, bits, stage, cand, p, q, n, phi, e, cdVars, shVars>>

\* a call generate_keypair(bits)
InitKeygen ==
    /\ pc = "generate_keypair"
    /\ caller = "generate_prime"
    /\ IpIdle
    /\ bits \in BitLengths
    /\ stage = "none" /\ cand = 0
    /\ p = 0 /\ q = 0 /\ n = 0 /\ phi = 0 /\ e = 0 /\ d = 0
    /\ keypair = <<>>
    /\ CdIdle
    /\ ShIdle

NextKeygen ==
    \/ GenerateKeypairCall
    \/ \E r \in DrawSample(bits \div 2) : GeneratePrimeDraw(r)
    \/ IsPrimeEntry
    \/ IsPrimeDraw
    \/ IsPrimeRound
    \/ IsPrimeExit
    \/ GeneratePrimeCheck
    \/ DistinctCheck
    \/ \E ev \in ESample(phi) : ChooseE(ev)
    \/ CheckE

SpecKeygen == InitKeygen /\ [][NextKeygen]_vars

---------------------------------------------------------------------------
(* The codec, lines 116-180.  A string is a sequence of characters, a      *)
(* character is a record holding its code point; a bytes object is a       *)
(* sequence of integers 0..255, as iterating over it gives them.           *)

\* ord(char)
ord(ch) == ch.code

\* chr(i) is defined for 0 <= i < 0x110000 and raises ValueError otherwise
ChrRaises(v) == ~(0 <= v /\ v < ChrLimit)
chr(v) == [code |-> v]

\* int.to_bytes(1, 'big'): the one-byte string holding v
ToBytes1(v) == <<v % (ByteMax + 1)>>

UnitTooLarge(ch, nv) == [error |-> "UnitTooLarge", unit |-> ord(ch), n |-> nv]
InvalidByteValue(v) == [error |-> "InvalidByteValue", value |-> v]

RECURSIVE EncryptTextLoop(_, _, _, _, _)
\* lines 125-135: the loop over the characters, from position idx, with the
\* list built so far
EncryptTextLoop(nv, ev, text, idx, acc) ==
    IF idx > Len(text) THEN [ret |-> acc, errors |-> <<>>]
    ELSE IF ord(text[idx]) >= nv
         THEN [ret |-> <<>>, errors |-> <<UnitTooLarge(text[idx], nv)>>]
         ELSE EncryptTextLoop(nv, ev, text, idx + 1,
                              Append(acc, pow(ord(text[idx]), ev, nv)))

RECURSIVE EncryptTextLoopPartial(_, _, _, _, _)
\* the loop with line 131 returning the list built so far
EncryptTextLoopPartial(nv, ev, text, idx, acc) ==
    IF idx > Len(text) THEN [ret |-> acc, errors |-> <<>>]
    ELSE IF ord(text[idx]) >= nv
         THEN [ret |-> acc, errors |-> <<UnitTooLarge(text[idx], nv)>>]
         ELSE EncryptTextLoopPartial(nv, ev, text, idx + 1,
                                     Append(acc, pow(ord(text[idx]), ev, nv)))

encrypt_text_partial(pk, text) == EncryptTextLoopPartial(pk[1], pk[2], text, 1, <<>>)

\* lines 116-135
encrypt_text(pk, text) == EncryptTextLoop(pk[1], pk[2], text, 1, <<>>)

RECURSIVE DecryptTextLoop(_, _, _, _, _)
\* lines 143-146: chr of an integer outside its range raises ValueError,
\* which nothing in the function catches
DecryptTextLoop(nv, dv, cts, idx, acc) ==
    IF idx > Len(cts) THEN [ret |-> acc, raised |-> "None"]
    ELSE LET v == pow(cts[idx], dv, nv)
         IN  IF ChrRaises(v)
             THEN [ret |-> <<>>, raised |-> "ValueError"]
             ELSE DecryptTextLoop(nv, dv, cts, idx + 1, Append(acc, chr(v)))

\* lines 137-146
decrypt_text(sk, cts) == DecryptTextLoop(sk[1], sk[2], cts, 1, <<>>)

RECURSIVE EncryptBytesLoop(_, _, _, _, _)
\* lines 158-162: no test of byte_val against n
EncryptBytesLoop(nv, ev, data, idx, acc) ==
    IF idx > Len(data) THEN [ret |-> acc, errors |-> <<>>]
    ELSE EncryptBytesLoop(nv, ev, data, idx + 1, Append(acc, pow(data[idx], ev, nv)))

\* lines 150-162
encrypt_bytes(pk, data) == EncryptBytesLoop(pk[1], pk[2], data, 1, <<>>)

RECURSIVE DecryptBytesLoop(_, _, _, _, _)
\* lines 171-180
DecryptBytesLoop(nv, dv, cts, idx, acc) ==
    IF idx > Len(cts) THEN [ret |-> acc, errors |-> <<>>]
    ELSE LET v == pow(cts[idx], dv, nv)
         IN  IF ~(0 <= v /\ v <= ByteMax)
             THEN [ret |-> <<>>, errors |-> <<InvalidByteValue(v)>>]
             ELSE DecryptBytesLoop(nv, dv, cts, idx + 1, acc \o ToBytes1(v))

RECURSIVE DecryptBytesLoopPartial(_, _, _, _, _)
\* the loop with line 177 returning the bytes converted so far
DecryptBytesLoopPartial(nv, dv, cts, idx, acc) ==
    IF idx > Len(cts) THEN [ret |-> acc, errors |-> <<>>]
    ELSE LET v == pow(cts[idx], dv, nv)
         IN  IF ~(0 <= v /\ v <= ByteMax)
             THEN [ret |-> acc, errors |-> <<InvalidByteValue(v)>>]
             ELSE DecryptBytesLoopPartial(nv, dv, cts, idx + 1, acc \o ToBytes1(v))

decrypt_bytes_partial(sk, cts) == DecryptBytesLoopPartial(sk[1], sk[2], cts, 1, <<>>)

RECURSIVE DecryptBytesLoopStrict(_, _, _, _, _)
\* the loop with line 174 written 0 <= v < 255
DecryptBytesLoopStrict(nv, dv, cts, idx, acc) ==
    IF idx > Len(cts) THEN [ret |-> acc, errors |-> <<>>]
    ELSE LET v == pow(cts[idx], dv, nv)
         IN  IF ~(0 <= v /\ v < ByteMax)
             THEN [ret |-> <<>>, errors |-> <<InvalidByteValue(v)>>]
             ELSE DecryptBytesLoopStrict(nv, dv, cts, idx + 1, acc \o ToBytes1(v))

decrypt_bytes_strict(sk, cts) == DecryptBytesLoopStrict(sk[1], sk[2], cts, 1, <<>>)

\* lines 164-180
decrypt_bytes(sk, cts) == DecryptBytesLoop(sk[1], sk[2], cts, 1, <<>>)

\* a call encrypt_text(public_key, plaintext)
EncryptTextCall ==
    /\ pc = "encrypt"
    /\ kind = "text"
    /\ ciphertext' = encrypt_text(public_key, plaintext).ret
    /\ st_error' = st_error \o encrypt_text(public_key, plaintext).errors
    /\ pc' = "encrypted"
    /\ UNCHANGED <<caller, ipVars, kgVars, public_key, private_key, kind,
                   plaintext, decrypted, raised, shVars>>

\* a call encrypt_bytes(public_key, data_bytes)
EncryptBytesCall ==
    /\ pc = "encrypt"
    /\ kind = "bytes"
    /\ ciphertext' = encrypt_bytes(public_key, plaintext).ret
    /\ st_error' = st_error \o encrypt_bytes(public_key, plaintext).errors
    /\ pc' = "encrypted"
    /\ UNCHANGED <<caller, ipVars, kgVars, public_key, private_key, kind,
                   plaintext, decrypted, raised, shVars>>

\* a call decrypt_text(private_key, ciphertext_ints)
DecryptTextCall ==
    /\ pc \in {"encrypted", "decrypt"}
    /\ kind = "text"
    /\ decrypted' = decrypt_text(private_key, ciphertext).ret
    /\ raised' = decrypt_text(private_key, ciphertext).raised
    /\ pc' = "decrypted"
    /\ UNCHANGED <<caller, ipVars, kgVars, public_key, private_key, kind,
                   plaintext, ciphertext, st_error, shVars>>

\* a call decrypt_bytes(private_key, ciphertext_ints)
DecryptBytesCall ==
    /\ pc \in {"encrypted", "decrypt"}
    /\ kind = "bytes"
    /\ decrypted' = decrypt_bytes(private_key, ciphertext).ret
    /\ st_error' = st_error \o decrypt_bytes(private_key, ciphertext).errors
    /\ pc' = "decrypted"
    /\ UNCHANGED <<caller, ipVars, kgVars, public_key, private_key, kind,
                   plaintext, ciphertext, raised, shVars>>

\* key material <<p, q, e, d>> handed to the codec: small moduli, well formed
\* or not, the textbook key n = 3233, a key with 255 < n, a key whose n
\* exceeds the code-point range, and two keys whose d is not the inverse of e
CodecKeys ==
    { k \in {2, 3, 5, 7} \X {3, 5, 7} \X {1, 3, 5} \X {1, 3, 5} : k[1] <= k[2] }
    \cup { <<61, 53, 17, 2753>>, <<17, 19, 5, 173>>, <<1049, 1063, 5, 890381>>,
           <<17, 19, 5, 7>>, <<61, 53, 17, 17>> }

\* the byte values and code points messages are made of
ByteSample == {0, 1, 2, 5, 65, ByteMax}
CodePointSample == {0, 1, 2, 5, 65, ByteMax, 3232, ChrLimit - 1}

\* the ciphertext units handed to a decrypt call directly: both ends of [0, n)
CipherSample(nv) == {c \in {0, 1, 2, nv - 2, nv - 1} : 0 <= c /\ c < nv}

SeqsUpTo(S) == UNION {[1..k -> S] : k \in 0..MaxLen}

\* a call of an encrypt function followed by the matching decrypt function
\* on its result ("roundtrip"), or a call of a decrypt function alone
InitCodec ==
    /\ caller \in {"roundtrip", "decrypt"}
    /\ pc = IF caller = "roundtrip" THEN "encrypt" ELSE "decrypt"
    /\ IpIdle
    /\ bits = 0 /\ stage = "none" /\ cand = 0 /\ keypair = <<>>
    /\ \E k \in CodecKeys :
          /\ p = k[1] /\ q = k[2] /\ e = k[3] /\ d = k[4]
    /\ n = p * q
    /\ phi = (p - 1) * (q - 1)
    /\ public_key = <<n, e>>
    /\ private_key = <<n, d>>
    /\ kind \in {"text", "bytes"}
    /\ IF caller = "roundtrip"
       THEN /\ plaintext \in IF kind = "text"
                             THEN SeqsUpTo({chr(v) : v \in CodePointSample})
                             ELSE SeqsUpTo(ByteSample)
            /\ ciphertext = <<>>
       ELSE /\ plaintext = <<>>
            /\ ciphertext \in SeqsUpTo(CipherSample(n))
    /\ decrypted = <<>>
    /\ st_error = <<>>
    /\ raised = "None"
    /\ ShIdle

NextCodec ==
    \/ EncryptTextCall
    \/ EncryptBytesCall
    \/ DecryptTextCall
    \/ DecryptBytesCall

SpecCodec == InitCodec /\ [][NextCodec]_vars

---------------------------------------------------------------------------
(* Claims about the codec, checked under SpecCodec. *)

\* the integer a message unit stands for: a code point or a byte value
UnitOf(u) == IF kind = "text" THEN ord(u) ELSE u

\* the keys in hand are a well-formed pair: n = p * q for two distinct true
\* primes, the same n in both keys, and (e * d) mod ((p - 1) * (q - 1)) = 1
WellFormedKeyPair ==
    /\ IsTruePrime(p) /\ IsTruePrime(q) /\ p # q
    /\ public_key = <<p * q, e>>
    /\ private_key = <<p * q, d>>
    /\ MulMod(e % ((p - 1) * (q - 1)), d % ((p - 1) * (q - 1)), (p - 1) * (q - 1)) = 1

\* C1: under a well-formed key pair, decrypting the result of encrypting a
\* message (text or bytes, the empty one included) whose every unit is < n
\* returns exactly the original message, unit for unit, in order.
C1_RoundTripWellFormedKey ==
    ( /\ pc = "decrypted" /\ caller = "roundtrip"
      /\ WellFormedKeyPair
      /\ \A i \in 1..Len(plaintext) : UnitOf(plaintext[i]) < public_key[1] )
    => (decrypted = plaintext /\ raised = "None" /\ st_error = <<>>)

\* C1 witness: the bytes [0, 255] went through encrypt_bytes and decrypt_bytes
\* under n = 3233, e = 17, d = 2753 and came back.
C1_Witness ==
    /\ pc = "decrypted" /\ caller = "roundtrip" /\ kind = "bytes"
    /\ public_key = <<3233, 17>> /\ private_key = <<3233, 2753>>
    /\ plaintext = <<0, 255>> /\ ciphertext # plaintext /\ decrypted = <<0, 255>>

\* C4: encrypt_text is all-or-nothing: when some character has code point
\* >= n it shows one UnitTooLarge error and returns the empty list, whatever
\* was encrypted before; otherwise it returns one unit per character, in
\* order, each pow(ord(char), e, n) and in [0, n - 1], and shows no error.
C4_EncryptTextAllOrNothing ==
    (pc = "encrypted" /\ kind = "text") =>
        IF \E i \in 1..Len(plaintext) : ord(plaintext[i]) >= public_key[1]
        THEN /\ ciphertext = <<>>
             /\ Len(st_error) = 1
             /\ st_error[1].error = "UnitTooLarge"
             /\ st_error[1].unit >= public_key[1]
        ELSE /\ Len(ciphertext) = Len(plaintext)
             /\ \A i \in 1..Len(plaintext) :
                   /\ ciphertext[i] = pow(ord(plaintext[i]), public_key[2], public_key[1])
                   /\ 0 <= ciphertext[i] /\ ciphertext[i] <= public_key[1] - 1
             /\ st_error = <<>>

\* C4 witness: a two-character text whose first character fits the key and
\* whose second does not was refused whole.
C4_Witness ==
    /\ pc = "encrypted" /\ kind = "text" /\ Len(plaintext) = 2
    /\ ord(plaintext[1]) < public_key[1] /\ ord(plaintext[2]) >= public_key[1]
    /\ ciphertext = <<>> /\ Len(st_error) = 1

\* C5 as stated: encrypt_bytes shows UnitTooLarge and returns no ciphertext
\* whenever some byte of the input is >= n.
C5_EncryptBytesRejectsLargeUnit ==
    ( /\ pc = "encrypted" /\ kind = "bytes"
      /\ \E i \in 1..Len(plaintext) : plaintext[i] >= public_key[1] )
    => ( /\ ciphertext = <<>>
         /\ \E j \in 1..Len(st_error) : st_error[j].error = "UnitTooLarge" )

\* C6: decrypt_bytes is all-or-nothing: when pow(c, d, n) is outside
\* [0, 255] for some unit c it shows one InvalidByteValue error, for the
\* first such value, and returns the empty bytes, whatever was converted
\* before; otherwise it returns one byte per unit, in order, and no error.
C6_DecryptBytesAllOrNothing ==
    (pc = "decrypted" /\ kind = "bytes") =>
        LET val(i) == pow(ciphertext[i], private_key[2], private_key[1])
            bad    == {i \in 1..Len(ciphertext) : val(i) < 0 \/ val(i) > 255}
        IN  IF bad # {}
            THEN /\ decrypted = <<>>
                 /\ Len(st_error) = 1
                 /\ st_error[1].error = "InvalidByteValue"
                 /\ \E i \in bad : /\ st_error[1].value = val(i)
                                   /\ \A j \in bad : i <= j
            ELSE /\ Len(decrypted) = Len(ciphertext)
                 /\ \A i \in 1..Len(ciphertext) : decrypted[i] = val(i)
                 /\ st_error = <<>>

\* C6 witness: the first unit decrypted to a byte, the second did not, and
\* nothing was returned.
C6_Witness ==
    /\ pc = "decrypted" /\ kind = "bytes" /\ Len(ciphertext) = 2
    /\ pow(ciphertext[1], private_key[2], private_key[1]) <= 255
    /\ pow(ciphertext[2], private_key[2], private_key[1]) > 255
    /\ decrypted = <<>> /\ Len(st_error) = 1

\* C7 as stated: for every private key and every ciphertext whose units lie
\* in [0, n), decrypt_text raises nothing and returns one character per
\* unit, the one whose code point is pow(c, d, n).
C7_DecryptTextNeverRaises ==
    ( /\ pc = "decrypted" /\ kind = "text"
      /\ \A i \in 1..Len(ciphertext) :
            0 <= ciphertext[i] /\ ciphertext[i] < private_key[1] )
    => ( /\ raised = "None"
         /\ Len(decrypted) = Len(ciphertext)
         /\ \A i \in 1..Len(ciphertext) :
               ord(decrypted[i]) = pow(ciphertext[i], private_key[2], private_key[1]) )

---------------------------------------------------------------------------
(* Claims about generate_keypair, checked under SpecKeygen. *)

\* the plaintext units tried against a generated key: both ends of [0, n)
PlainUnits(nv) == (0..Min(nv - 1, MaxUnit)) \cup (Max(0, nv - 1 - MaxUnit)..(nv - 1))

\* decrypt(encrypt(m)) = m under the returned key pair, for the units tried
RoundTripOnReturnedKey ==
    \A m \in PlainUnits(keypair[1][1]) :
        pow(pow(m, keypair[1][2], keypair[1][1]), keypair[2][2], keypair[2][1]) = m

\* C2 as stated: for every key pair generate_keypair returns, whatever the
\* random draws were, pow(pow(m, e, n), d, n) = m for every unit m in [0, n).
C2_RoundTripEveryDraw ==
    pc = "done" => RoundTripOnReturnedKey

\* C2 amended: for every key pair generate_keypair returns in which p and q
\* are both truly prime (is_prime accepted no composite),
\* pow(pow(m, e, n), d, n) = m for every unit m in [0, n).
C2_RoundTripTruePrimes ==
    (pc = "done" /\ IsTruePrime(p) /\ IsTruePrime(q)) => RoundTripOnReturnedKey

\* C2 witness: generate_keypair(16) returned a key built on two true primes.
C2_Witness ==
    /\ pc = "done" /\ bits = 16 /\ IsTruePrime(p) /\ IsTruePrime(q)
    /\ keypair[1][1] = p * q

\* v has exactly b bits
HasBits(v, b) == 2 ^ (b - 1) <= v /\ v < 2 ^ b

\* C3: for every bit length >= 16, the returned key pair has n = p * q with p
\* and q both accepted by is_prime, each of exactly bits // 2 bits, odd and
\* distinct; both keys carry n; 1 < e < phi, gcd(e, phi) = 1 with
\* phi = (p - 1) * (q - 1); d = mod_inverse(e, phi) is in [0, phi) and
\* (e * d) mod phi = 1.
C3_KeyPairValid ==
    /\ []( (pc = "done" /\ bits >= 16) =>
             /\ n = p * q
             /\ phi = (p - 1) * (q - 1)
             /\ HasBits(p, bits \div 2) /\ HasBits(q, bits \div 2)
             /\ p % 2 = 1 /\ q % 2 = 1
             /\ p # q
             /\ keypair = << <<n, e>>, <<n, d>> >>
             /\ 1 < e /\ e < phi
             /\ gcd(e, phi) = 1
             /\ d = mod_inverse(e, phi)
             /\ 0 <= d /\ d < phi
             /\ MulMod(e, d, phi) = 1 )
    /\ [][ bits >= 16 =>
             /\ (p' # p => (ip_ret = "True" /\ ip_n = p'))
             /\ (q' # q => (ip_ret = "True" /\ ip_n = q')) ]_vars

\* C3 witness: generate_keypair(16) returned, with an e above 2.
C3_Witness ==
    /\ pc = "done" /\ bits = 16 /\ keypair = << <<n, e>>, <<n, d>> >>
    /\ e > 2 /\ n > 2 ^ 14

---------------------------------------------------------------------------
(* Termination of generate_keypair, checked under FairSpecKeygen. *)

InitFair == InitKeygen /\ bits <= MaxFairBits

\* getrandbits produced a value that line 48 turns into the candidate c
DrawCandidate(c) ==
    \E r \in DrawSample(bits \div 2) : GeneratePrimeDraw(r) /\ cand' = c

\* randint(2, phi - 1) produced its largest value
ChooseLargestE == ChooseE(phi - 1)

\* Fair random draws: a candidate that getrandbits can produce again and
\* again is eventually produced, and so is the value phi - 1 of randint; and
\* the call keeps running while it can take a step.  (Fairness is asked of
\* these draws only, which is less than fairness of every draw.)
FairDraws ==
    /\ WF_vars(NextKeygen)
    /\ \A c \in {v \in 1..(2 ^ (MaxFairBits \div 2) - 1) : v % 2 = 1} :
           SF_vars(DrawCandidate(c))
    /\ SF_vars(ChooseLargestE)

FairSpecKeygen == InitFair /\ [][NextKeygen]_vars /\ FairDraws

\* C10 as stated: for every even positive bit length, generate_keypair(bits)
\* eventually returns a key pair when the random draws are fair.
C10_AlwaysReturns == <>(pc = "done")

\* C10 amended: for every even bit length >= 6, generate_keypair(bits)
\* eventually returns a key pair when the random draws are fair; for bits = 2
\* and bits = 4 it never returns.
C10_ReturnsFromSixBits ==
    /\ (bits >= 6) => <>(pc = "done")
    /\ (bits < 6) => [](pc # "done")

\* C10 witness: generate_keypair(6), the smallest call that can return, has
\* returned a key pair.
C10_Witness ==
    /\ pc = "done" /\ bits = 6 /\ keypair = << <<n, e>>, <<n, d>> >>

---------------------------------------------------------------------------
(* Claims about is_prime, checked under SpecPrime. *)

\* C8: is_prime has no false negatives: whenever is_prime(n, k) has returned
\* for a true prime n (any k >= 1, any bases drawn), it returned True.
C8_NoFalseNegative ==
    (pc = "is_prime_ret" /\ IsTruePrime(ip_n)) => ip_ret = "True"

\* C8 witness: is_prime(97, k) returned True after all k >= 2 rounds ran.
C8_Witness ==
    /\ pc = "is_prime_ret" /\ ip_n = 97 /\ ip_k >= 2 /\ ip_i = ip_k
    /\ ip_ret = "True"

\* the bases in [2, 89] that do not reveal 91 = 7 * 13 as composite
StrongLiars91 == {9, 10, 12, 16, 17, 22, 29, 38, 53, 62, 69, 74, 75, 79, 81, 82}

\* C9 as stated: with the default 5 rounds, is_prime returns False for each of
\* 1, 4, 15 and 91 whatever bases are drawn.
C9_FixturesAlwaysFalse ==
    (pc = "is_prime_ret" /\ ip_k = DefaultRounds /\ ip_n \in {1, 4, 15, 91})
        => ip_ret = "False"

\* C9 amended: with the default 5 rounds, is_prime returns False for each of
\* 1, 4 and 15 whatever bases are drawn; for 91 a round returns False at once
\* when its base is not a strong liar of 91, and passes when it is one, so
\* that True comes back exactly when all five bases drawn are strong liars.
C9_FixturesAmended ==
    /\ [](  (pc = "is_prime_ret" /\ ip_k = DefaultRounds /\ ip_n \in {1, 4, 15})
              => ip_ret = "False")
    /\ [][ (pc = "is_prime_round" /\ ip_k = DefaultRounds /\ ip_n = 91)
              => IF ip_a \in StrongLiars91
                 THEN pc' = "is_prime_loop" /\ ip_i' = ip_i + 1
                 ELSE pc' = "is_prime_ret" /\ ip_ret' = "False" ]_vars
    /\ [](  (pc = "is_prime_ret" /\ ip_k = DefaultRounds /\ ip_n = 91
             /\ ip_ret = "True") => ip_i = DefaultRounds)

\* C9 witness: is_prime(91) returned False in a later round, after at least
\* one round passed on a strong liar.
C9_Witness ==
    /\ pc = "is_prime_ret" /\ ip_n = 91 /\ ip_k = DefaultRounds
    /\ ip_i >= 1 /\ ip_ret = "False"

---------------------------------------------------------------------------
(* The shell, lines 184-308: the script runs once from top to bottom for   *)
(* each thing the user does (choosing a page, changing a widget, pressing  *)
(* a button); st.session_state is what one run leaves to the next.  Each   *)
(* action below is one run of the script.                                  *)

\* largest key size the slider of line 218 offers
MaxKeyBits == 6
\* longest text typed into the text area of line 246
MaxText == 1

\* the key sizes offered: the slider's even sizes, from the smallest one for
\* which two distinct primes of half the size exist
KeySizes == {b \in BitLengths : 2 ^ (b \div 2 - 1) >= 4 /\ b <= MaxKeyBits}

\* the characters typed: code points below every n a key of these sizes has
TextChars == {chr(v) : v \in 2..3}

\* the texts the text area can hold: the default text of line 248 or
\* whatever the user has typed over it, the empty text included
TextAreaValues == UNION {[1..k -> TextChars] : k \in 0..MaxText}

\* lines 8-39: is_prime(c) returns True for some draw of its bases
CanReturnTrue(c) ==
    \/ EarlyReturn(c) = "True"
    \/ /\ EarlyReturn(c) = "None"
       /\ \E av \in 2..(c - 2) :
             RoundPasses(c, Decompose(0, c - 1)[1], Decompose(0, c - 1)[2], av)

\* lines 41-50: the values generate_prime(b) can return
GeneratePrimeResults(b) ==
    {c \in {SetBits(r, b) : r \in 0..(2 ^ b - 1)} : CanReturnTrue(c)}

\* lines 82-113: the pairs (public, private) generate_keypair(b) can return
GenerateKeypairResults(b) ==
    UNION { UNION { { << <<pv * qv, ev>>,
                         <<pv * qv, mod_inverse(ev, (pv - 1) * (qv - 1))>> >> :
                      ev \in {x \in 2..((pv - 1) * (qv - 1) - 1) :
                                 gcd(x, (pv - 1) * (qv - 1)) = 1} } :
                    qv \in GeneratePrimeResults(b \div 2) \ {pv} } :
            pv \in GeneratePrimeResults(b \div 2) }

\* what a run of the script shows is shown anew: nothing is left of the
\* messages of the run before
ShellFrame ==
    /\ pc' = "shell"
    /\ UNCHANGED <<caller, ipVars, kgVars, public_key, private_key, kind,
                   plaintext, ciphertext, decrypted>>

\* lines 214-222: page 1 with the slider at key_bits, the button not pressed
KeyGenerationPage(key_bits) ==
    /\ pc = "shell"
    /\ session_state' = [session_state EXCEPT !.last_key_bits = key_bits]
    /\ st_success' = <<>>
    /\ st_error' = <<>>
    /\ raised' = "None"
    /\ ShellFrame

\* lines 214-235: page 1, the button pressed; generate_keypair shows the
\* messages of lines 97 and 111 and returns kp
GenerateButton(key_bits) ==
    /\ pc = "shell"
    /\ \E kp \in GenerateKeypairResults(key_bits) :
          session_state' = [session_state EXCEPT !.last_key_bits = key_bits,
                                                 !.public_key = kp[1],
                                                 !.private_key = kp[2]]
    /\ st_success' = <<"Generated p, Generated q",
                       "Public exponent (e), Private exponent (d)",
                       "Keys generated successfully!">>
    /\ st_error' = <<>>
    /\ raised' = "None"
    /\ ShellFrame

\* lines 238-253 and 266-267: page 2 with message_to_encrypt in the text
\* area, the button not pressed
TextEncryptionPage(message_to_encrypt) ==
    /\ pc = "shell"
    /\ IF session_state.public_key # <<>>
       THEN session_state' = [session_state EXCEPT
                                 !.original_text_msg = message_to_encrypt]
       ELSE UNCHANGED session_state
    /\ st_success' = <<>>
    /\ st_error' = <<>>
    /\ raised' = "None"
    /\ ShellFrame

\* lines 242-265: page 2, the button pressed with message_to_encrypt in the
\* text area; an empty result of encrypt_text leaves encrypted_text_msg as
\* it was
EncryptButton(message_to_encrypt) ==
    /\ pc = "shell"
    /\ session_state.public_key # <<>>
    /\ LET r == encrypt_text(session_state.public_key, message_to_encrypt)
       IN  IF r.ret # <<>>
           THEN /\ session_state' = [session_state EXCEPT
                                        !.original_text_msg = message_to_encrypt,
                                        !.encrypted_text_msg = r.ret]
                /\ st_success' = <<"Text message encrypted successfully!">>
                /\ st_error' = r.errors
           ELSE /\ session_state' = [session_state EXCEPT
                                        !.original_text_msg = message_to_encrypt]
                /\ st_success' = <<>>
                /\ st_error' = r.errors \o <<[error |-> "EncryptionFailed"]>>
    /\ raised' = "None"
    /\ ShellFrame

\* lines 271-281 and 301-308: page 3, the button not pressed or not shown
TextDecryptionPage ==
    /\ pc = "shell"
    /\ UNCHANGED session_state
    /\ st_success' = <<>>
    /\ st_error' = <<>>
    /\ raised' = "None"
    /\ ShellFrame

\* lines 275-300: page 3, the button pressed; a ValueError out of
\* decrypt_text ends the run before line 288
DecryptButton ==
    /\ pc = "shell"
    /\ session_state.private_key # <<>>
    /\ session_state.encrypted_text_msg # <<>>
    /\ LET r == decrypt_text(session_state.private_key,
                             session_state.encrypted_text_msg)
       IN  IF r.raised # "None"
           THEN /\ UNCHANGED session_state
                /\ st_success' = <<>>
                /\ st_error' = <<>>
                /\ raised' = r.raised
           ELSE /\ session_state' = [session_state EXCEPT
                                        !.decrypted_text_msg = r.ret]
                /\ raised' = "None"
                /\ IF session_state.original_text_msg = r.ret
                   THEN /\ st_success' = <<"Text message decrypted successfully!",
                                           "Verification: Decryption Successful!">>
                        /\ st_error' = <<>>
                   ELSE /\ st_success' = <<"Text message decrypted successfully!">>
                        /\ st_error' = <<[error |-> "VerificationFailed"]>>
    /\ ShellFrame

\* the first run of the script has ended
InitShell ==
    /\ pc = "shell"
    /\ caller = "user"
    /\ IpIdle
    /\ KgIdle
    /\ CdIdle
    /\ ShIdle

NextShell ==
    \/ \E key_bits \in KeySizes : KeyGenerationPage(key_bits)
    \/ \E key_bits \in KeySizes : GenerateButton(key_bits)
    \/ \E m \in TextAreaValues : TextEncryptionPage(m)
    \/ \E m \in TextAreaValues : EncryptButton(m)
    \/ TextDecryptionPage
    \/ DecryptButton

SpecShell == InitShell /\ [][NextShell]_vars

---------------------------------------------------------------------------
(* Claim about the shell, checked under SpecShell. *)

\* C11 as stated: after any sequence of user actions, a non-empty stored
\* encrypted_text_msg is the encryption of the stored original_text_msg under
\* the stored public_key, and so a run of the decrypt button never ends in an
\* exception or in the verification message reporting a mismatch.
C11_SessionConsistent ==
    /\ session_state.encrypted_text_msg # <<>> =>
          /\ session_state.public_key # <<>>
          /\ session_state.encrypted_text_msg =
                encrypt_text(session_state.public_key,
                             session_state.original_text_msg).ret
    /\ raised = "None"
    /\ \A i \in 1..Len(st_error) : st_error[i].error # "VerificationFailed"

====
